---- MODULE Spec2Model ----
(***************************************************************************)
(* Reconciliation engine of the DeploymentFreezer operator.                *)
(*                                                                         *)
(* The datastore holds one target Deployment and the DeploymentFreezer     *)
(* objects (DFZ) that name it.  A reconcile of a DFZ is a sequence of API  *)
(* calls; every API call together with the pure code that follows it up to *)
(* the next API call is one atomic step, so reconciles of different DFZs   *)
(* and the other writers of the datastore interleave at the API calls.     *)
(* Deployment and finalizer patches are merge patches of the changed key   *)
(* computed against a fresh read, so a read-latest/patch pair is one step. *)
(***************************************************************************)
EXTENDS Integers, Sequences, FiniteSets, TLC

\* ------------------------------------------------------------------ bounds
MaxReplicas == 2
MaxDuration == 2
MaxClock == 0
MaxUID == 2
MaxDisturb == 2
MaxAddr == 2
MaxTpl == 2
MaxNow == 1

\* ------------------------------------------------------- program constants
defaultReplicasCount == 1
requeueShort == 2
requeueMedium == 5

Nil == -1

DFZ == {"d1", "d2"}
OneDFZ == {"d1"}
Namespace == "default"
OtherOwner == "default/other"

\* fmt.Sprintf("%s/%s", dfz.Namespace, dfz.Name)
Owner(d) == Namespace \o "/" \o d

PhasePending == "Pending"
PhaseFreezing == "Freezing"
PhaseFrozen == "Frozen"
PhaseUnfreezing == "Unfreezing"
PhaseCompleted == "Completed"
PhaseDenied == "Denied"
PhaseAborted == "Aborted"
Terminal == {PhaseCompleted, PhaseDenied, PhaseAborted}

\* Deployment .status.{replicas,readyReplicas,availableReplicas,updatedReplicas}
StatusZero == [replicas |-> 0, ready |-> 0, available |-> 0, updated |-> 0]
StatusRunning == [replicas |-> 1, ready |-> 1, available |-> 1, updated |-> 1]
StatusValues ==
    { StatusZero, StatusRunning,
      [StatusZero EXCEPT !.replicas = 1], [StatusZero EXCEPT !.ready = 1],
      [StatusZero EXCEPT !.available = 1], [StatusZero EXCEPT !.updated = 1] }

EmptyStatus ==
    [ phase |-> "", observedGeneration |-> 0, refName |-> "", uid |-> 0,
      originalReplicas |-> Nil, freezeUntil |-> Nil, conditions |-> << >> ]

NoResult == [requeue |-> 0, err |-> FALSE, now |-> Nil]
NoTrack ==
    [acquired |-> FALSE, wrote |-> FALSE, foreign |-> FALSE, apiErr |-> FALSE, scan |-> FALSE]

VARIABLES
    clock,      \* wall clock, in seconds
    target,     \* the target Deployment in the datastore
    dfz,        \* the DFZ objects in the datastore
    pc,         \* position of the in-flight reconcile of each DFZ
    mem,        \* in-memory DFZ of the in-flight reconcile
    snap,       \* statusTracker.orig of the in-flight reconcile
    dep,        \* the Deployment read by the in-flight reconcile
    res,        \* ctrl.Result / error of the in-flight reconcile
    track,      \* what the in-flight reconcile did and what others did meanwhile
    hist,       \* history of each DFZ over all its reconciles
    envSteps,   \* number of changes made by other writers and of crashes so far
    fails,      \* number of failed API calls so far
    nextUID     \* UID the next created Deployment gets

vars == << clock, target, dfz, pc, mem, snap, dep, res, track, hist, envSteps, fails, nextUID >>

\* ------------------------------------------------------------- helpers.go
setPhase(m, phase) == [m EXCEPT !.status.phase = phase]

phaseForNotFound_Restart(m) ==
    IF m.status.phase \in {PhasePending, ""} \cup Terminal THEN PhasePending ELSE PhaseAborted

phaseForNotFound(m) ==
    IF m.status.phase \in {PhasePending, ""} THEN PhasePending ELSE PhaseAborted

CondIndex(conds, t) ==
    IF \E i \in 1..Len(conds) : conds[i].type = t
    THEN CHOOSE i \in 1..Len(conds) :
            conds[i].type = t /\ \A j \in 1..(i - 1) : conds[j].type # t
    ELSE 0

setConditionSeq_Only(conds, t, s, r, msg, now) ==
    << [type |-> t, status |-> s, reason |-> r, message |-> msg, lastTransitionTime |-> now] >>

setConditionSeq_MoveToEnd(conds, t, s, r, msg, now) ==
    LET newC == [type |-> t, status |-> s, reason |-> r, message |-> msg,
                 lastTransitionTime |-> now]
    IN  Append(SelectSeq(conds, LAMBDA c : c.type # t), newC)

setConditionSeq_Append(conds, t, s, r, msg, now) ==
    Append(conds, [type |-> t, status |-> s, reason |-> r, message |-> msg,
                   lastTransitionTime |-> now])

setConditionSeq(conds, t, s, r, msg, now) ==
    LET newC == [type |-> t, status |-> s, reason |-> r, message |-> msg,
                 lastTransitionTime |-> now]
        i == CondIndex(conds, t)
    IN  IF i # 0
        THEN IF conds[i].status # s \/ conds[i].reason # r \/ conds[i].message # msg
             THEN [conds EXCEPT ![i] = newC]
             ELSE [conds EXCEPT ![i].lastTransitionTime = now]
        ELSE Append(conds, newC)

setCondition(m, t, s, r, msg, now) ==
    [m EXCEPT !.status.conditions = setConditionSeq(@, t, s, r, msg, now)]

HasCond(st, t, s, r) ==
    \E i \in 1..Len(st.conditions) :
        /\ st.conditions[i].type = t
        /\ st.conditions[i].status = s
        /\ st.conditions[i].reason = r

\* hashTemplate prints the pod template with %v, which renders nested
\* pointer fields as addresses: the digest depends on the template and on
\* where the decoded object happens to live.
hashTemplate(deploy, addr) == (deploy.tpl - 1) * MaxAddr + addr

\* A handler's pure code ends either at the next API call (pc names it) or
\* at the return of Reconcile (pc = "commit", the deferred commitStatus).
Goto(m, next, now) ==
    [m |-> m, pc |-> next, res |-> [requeue |-> 0, err |-> FALSE, now |-> now], acq |-> FALSE]
Return(m, requeue, now) ==
    [m |-> m, pc |-> "commit", res |-> [requeue |-> requeue, err |-> FALSE, now |-> now],
     acq |-> FALSE]
ReturnErr(m, now) ==
    [m |-> m, pc |-> "commit", res |-> [requeue |-> 0, err |-> TRUE, now |-> now],
     acq |-> FALSE]
Acquired(r) == [r EXCEPT !.acq = TRUE]

\* ---------------------------------------------------- phases: drain-verify
\* handlePendingOrFreezing from "Record original replicas" on; deploy is the
\* Deployment as Reconcile read it.
recordedReplicas_Default(deploy) == defaultReplicasCount

\* "Record original replicas": prefer a positive value, fall back to the default.
recordedReplicas(deploy) ==
    IF deploy.replicas # Nil /\ deploy.replicas > 0
    THEN deploy.replicas ELSE defaultReplicasCount

drained_SpecOnly(deploy) == TRUE

\* "verify the Deployment is effectively at zero"
drained(deploy) ==
    /\ deploy.st.replicas = 0 /\ deploy.st.ready = 0
    /\ deploy.st.available = 0 /\ deploy.st.updated = 0

freezeDeadline_Now(m, now) == now

\* until := r.now().Add(time.Duration(dfz.Spec.DurationSeconds) * time.Second)
freezeDeadline(m, now) == now + m.duration

hpfScale_Rerecord(m, deploy, now) ==
    LET replicas == recordedReplicas(deploy)
        m1 == [m EXCEPT !.status.originalReplicas = replicas]
    IN  IF deploy.replicas = Nil \/ deploy.replicas # 0
        THEN Goto(m1, "scaleDown", now)
        ELSE IF drained(deploy)
        THEN LET m2 == setPhase(setCondition(m1, "FreezeProgress", "True", "ScaledToZero",
                                             "Deployment is fully scaled to zero", now),
                                PhaseFrozen)
                 until == freezeDeadline(m, now)
             IN  Return([m2 EXCEPT !.status.freezeUntil = until], until - now, now)
        ELSE Return(setPhase(setCondition(m1, "FreezeProgress", "False", "ScalingDown",
                                          "Waiting for Deployment to reach zero replicas", now),
                             PhaseFreezing),
                    requeueShort, now)

hpfScale(m, deploy, now) ==
    LET replicas == recordedReplicas(deploy)
        m1 == IF m.status.originalReplicas = Nil
              THEN [m EXCEPT !.status.originalReplicas = replicas] ELSE m
    IN  IF deploy.replicas = Nil \/ deploy.replicas # 0
        THEN Goto(m1, "scaleDown", now)
        ELSE IF drained(deploy)
        THEN LET m2 == setPhase(setCondition(m1, "FreezeProgress", "True", "ScaledToZero",
                                             "Deployment is fully scaled to zero", now),
                                PhaseFrozen)
                 until == freezeDeadline(m, now)
             IN  Return([m2 EXCEPT !.status.freezeUntil = until], until - now, now)
        ELSE Return(setPhase(setCondition(m1, "FreezeProgress", "False", "ScalingDown",
                                          "Waiting for Deployment to reach zero replicas", now),
                             PhaseFreezing),
                    requeueShort, now)

handlePendingOrFreezing_NoDeny(d, m, deploy, now) ==
    IF deploy.frozenBy = ""
    THEN Goto(m, "acquire", now)
    ELSE Acquired(hpfScale(setCondition(m, "Ownership", "True", "Acquired",
                                        "Ownership already held", now),
                           deploy, now))

handlePendingOrFreezing_DenyUnowned(d, m, deploy, now) ==
    IF deploy.frozenBy # Owner(d)
    THEN Return(setPhase(setCondition(m, "Ownership", "False", "DeniedAlreadyFrozen",
                                      "Deployment is already owned by " \o deploy.frozenBy, now),
                         PhaseDenied),
                0, now)
    ELSE Acquired(hpfScale(setCondition(m, "Ownership", "True", "Acquired",
                                        "Ownership already held", now),
                           deploy, now))

\* handlePendingOrFreezing up to the acquisition write.
handlePendingOrFreezing(d, m, deploy, now) ==
    LET owner == Owner(d)
        frozenBy == deploy.frozenBy
    IN  IF frozenBy # "" /\ frozenBy # owner
        THEN Return(setPhase(setCondition(m, "Ownership", "False", "DeniedAlreadyFrozen",
                                          "Deployment is already owned by " \o frozenBy, now),
                             PhaseDenied),
                    0, now)
        ELSE IF frozenBy # owner
        THEN Goto(m, "acquire", now)
        ELSE Acquired(hpfScale(setCondition(m, "Ownership", "True", "Acquired",
                                            "Ownership already held", now),
                               deploy, now))

handleFrozen_Extend(d, m, deploy, now) ==
    IF deploy.frozenBy # Owner(d)
    THEN Return(setPhase(setCondition(m, "Ownership", "False", "Lost",
                                      "Ownership annotation disappeared or was overwritten", now),
                         PhaseAborted),
                0, now)
    ELSE IF m.status.freezeUntil = Nil
    THEN ReturnErr(m, now)
    ELSE IF now < m.status.freezeUntil
    THEN Return([m EXCEPT !.status.freezeUntil = freezeDeadline(m, now)], m.duration, now)
    ELSE Return(setPhase(m, PhaseUnfreezing), requeueShort, now)

handleFrozen_NoOwnerCheck(d, m, deploy, now) ==
    IF m.status.freezeUntil = Nil
    THEN ReturnErr(m, now)
    ELSE IF now < m.status.freezeUntil
    THEN Return(m, m.status.freezeUntil - now, now)
    ELSE Return(setPhase(m, PhaseUnfreezing), requeueShort, now)

handleFrozen_DeadlineFirst(d, m, deploy, now) ==
    IF m.status.freezeUntil = Nil
    THEN ReturnErr(m, now)
    ELSE IF now >= m.status.freezeUntil
    THEN Return(setPhase(m, PhaseUnfreezing), requeueShort, now)
    ELSE IF deploy.frozenBy # Owner(d)
    THEN Return(setPhase(setCondition(m, "Ownership", "False", "Lost",
                                      "Ownership annotation disappeared or was overwritten", now),
                         PhaseAborted),
                0, now)
    ELSE Return(m, m.status.freezeUntil - now, now)

handleFrozen_Never(d, m, deploy, now) ==
    IF deploy.frozenBy # Owner(d)
    THEN Return(setPhase(setCondition(m, "Ownership", "False", "Lost",
                                      "Ownership annotation disappeared or was overwritten", now),
                         PhaseAborted),
                0, now)
    ELSE Return(m, requeueShort, now)

handleFrozen_Early(d, m, deploy, now) ==
    IF deploy.frozenBy # Owner(d)
    THEN Return(setPhase(setCondition(m, "Ownership", "False", "Lost",
                                      "Ownership annotation disappeared or was overwritten", now),
                         PhaseAborted),
                0, now)
    ELSE IF m.status.freezeUntil = Nil
    THEN ReturnErr(m, now)
    ELSE IF now + 1 < m.status.freezeUntil
    THEN Return(m, m.status.freezeUntil - now, now)
    ELSE Return(setPhase(m, PhaseUnfreezing), requeueShort, now)

handleFrozen(d, m, deploy, now) ==
    IF deploy.frozenBy # Owner(d)
    THEN Return(setPhase(setCondition(m, "Ownership", "False", "Lost",
                                      "Ownership annotation disappeared or was overwritten", now),
                         PhaseAborted),
                0, now)
    ELSE IF m.status.freezeUntil = Nil
    THEN ReturnErr(m, now)                  \* nil dereference: the reconcile panics
    ELSE IF now < m.status.freezeUntil
    THEN Return(m, m.status.freezeUntil - now, now)
    ELSE Return(setPhase(m, PhaseUnfreezing), requeueShort, now)

handleUnfreezing(d, m, deploy, now) ==
    IF m.status.originalReplicas = Nil
    THEN ReturnErr(m, now)                  \* nil dereference: the reconcile panics
    ELSE Goto(m, "restore", now)

\* Reconcile from "Record observedGeneration" on: the phase router.
Router(d, m, deploy, now) ==
    LET m1 == IF m.status.observedGeneration # m.gen
              THEN [m EXCEPT !.status.observedGeneration = m.gen] ELSE m
        m2 == IF m1.status.phase = "" THEN setPhase(m1, PhasePending) ELSE m1
    IN  CASE m2.status.phase \in {PhasePending, PhaseFreezing} ->
                handlePendingOrFreezing(d, m2, deploy, now)
          [] m2.status.phase = PhaseFrozen -> handleFrozen(d, m2, deploy, now)
          [] m2.status.phase = PhaseUnfreezing -> handleUnfreezing(d, m2, deploy, now)
          [] m2.status.phase \in Terminal -> Return(m2, 0, now)
          [] OTHER -> Return(m2, requeueShort, now)

compareTemplateHash_Always(m, deploy, addr, now) ==
    setCondition(m, "SpecChangedDuringFreeze", "True", "Observed",
                 "Target Deployment's pod template changed during the lifecycle", now)

\* ensureTemplateHashAnno when the DFZ already carries a hash.
compareTemplateHash(m, deploy, addr, now) ==
    IF m.tplAnno # hashTemplate(deploy, addr)
    THEN setCondition(m, "SpecChangedDuringFreeze", "True", "Observed",
                      "Target Deployment's pod template changed during the lifecycle", now)
    ELSE m

afterFetch_NoPin(d, m, deploy, addr, now) ==
    LET m1 == IF m.status.uid = 0
              THEN [m EXCEPT !.status.refName = deploy.name, !.status.uid = deploy.uid]
              ELSE m
    IN  IF m1.tplAnno = 0
        THEN Goto(m1, "templateHash", now)
        ELSE Router(d, compareTemplateHash(m1, deploy, addr, now), deploy, now)

\* Reconcile from "UID pinning" up to ensureTemplateHashAnno.
afterFetch(d, m, deploy, addr, now) ==
    IF m.status.uid # 0 /\ deploy.uid # m.status.uid
    THEN Return(setPhase(setCondition(m, "TargetFound", "False", "UIDMismatch",
                                      "Deployment was recreated with a different UID", now),
                         PhaseAborted),
                0, now)
    ELSE LET m1 == IF m.status.uid = 0
                   THEN [m EXCEPT !.status.refName = deploy.name, !.status.uid = deploy.uid]
                   ELSE m
         IN  IF m1.tplAnno = 0
             THEN Goto(m1, "templateHash", now)
             ELSE Router(d, compareTemplateHash(m1, deploy, addr, now), deploy, now)

targetNotFound_NoRequeue(m, now) ==
    Return(setCondition(setPhase(m, phaseForNotFound(m)), "TargetFound", "False", "NotFound",
                        "Target Deployment does not exist", now),
           0, now)

targetNotFound_Reset(m, now) ==
    Return([setPhase(m, phaseForNotFound(m)) EXCEPT !.status.conditions =
               << [type |-> "TargetFound", status |-> "False", reason |-> "NotFound",
                   message |-> "Target Deployment does not exist",
                   lastTransitionTime |-> now] >>],
           requeueMedium, now)

\* Reconcile when the target is not found.
targetNotFound(m, now) ==
    Return(setCondition(setPhase(m, phaseForNotFound(m)), "TargetFound", "False", "NotFound",
                        "Target Deployment does not exist", now),
           requeueMedium, now)

healthConflict_Pending(m, msg, now) ==
    Return(setPhase(setCondition(m, "Health", "False", "APIConflict", msg, now), PhasePending),
           requeueShort, now)

healthConflict(m, msg, now) ==
    Return(setCondition(m, "Health", "False", "APIConflict", msg, now), requeueShort, now)

\* reflect.DeepEqual(st.orig, dfz.Status).  st.orig is a shallow copy: its
\* Conditions slice shares the backing array with dfz.Status.Conditions, so
\* a condition that setCondition replaced in place is replaced in st.orig
\* too, and the two slices differ only once an entry was appended.
statusUnchanged(orig, cur) ==
    /\ orig.phase = cur.phase
    /\ orig.observedGeneration = cur.observedGeneration
    /\ orig.refName = cur.refName
    /\ orig.uid = cur.uid
    /\ orig.originalReplicas = cur.originalReplicas
    /\ orig.freezeUntil = cur.freezeUntil
    /\ Len(orig.conditions) = Len(cur.conditions)

\* ------------------------------------------------------------ the datastore
TargetName == "demo-deploy"
ReplicaValues == {Nil} \cup (0..MaxReplicas)

NoDeployment ==
    [ exists |-> FALSE, name |-> TargetName, uid |-> 0, replicas |-> Nil,
      st |-> StatusZero, frozenBy |-> "", tpl |-> 1 ]
NewDeployment(uid, k, st) ==
    [ exists |-> TRUE, name |-> TargetName, uid |-> uid, replicas |-> k,
      st |-> st, frozenBy |-> "", tpl |-> 1 ]

NoDFZ ==
    [ exists |-> FALSE, deleting |-> FALSE, finalizers |-> 0, gen |-> 1,
      tplAnno |-> 0, duration |-> 1, status |-> EmptyStatus ]
NewDFZ(duration) == [NoDFZ EXCEPT !.exists = TRUE, !.duration = duration]

\* History of a DFZ: k0 = the target's replica count when the DFZ was created,
\* wroteAnno = it has written frozen-by, preScale = the target's replica count
\* right before its first setReplicas(0) (Unset: none yet), last = the status
\* left by its previous reconcile if that one started in a terminal phase and
\* nothing has changed since.
Unset == Nil - 1
NoLast == [valid |-> FALSE, status |-> EmptyStatus]
NoHist(k) == [k0 |-> k, wroteAnno |-> FALSE, preScale |-> Unset, last |-> NoLast]

\* pcs at which the in-flight reconcile works on a Deployment it has read
HoldsTarget ==
    {"templateHash", "acquire", "scaleDown", "restore", "clear", "commit",
     "delRestore", "delClear", "removeFinalizer"}

InitWith(D, Ks, Owners) ==
    /\ clock = 0
    /\ \E k \in Ks, fb \in Owners :
          /\ target = [NewDeployment(1, k, IF k = 0 THEN StatusZero ELSE StatusRunning)
                           EXCEPT !.frozenBy = fb]
          /\ hist = [d \in DFZ |-> NoHist(k)]
    /\ \E dur \in 1..MaxDuration :
          dfz = [d \in DFZ |-> IF d \in D THEN NewDFZ(dur) ELSE NoDFZ]
    /\ pc = [d \in DFZ |-> "idle"]
    /\ mem = [d \in DFZ |-> NoDFZ]
    /\ snap = [d \in DFZ |-> EmptyStatus]
    /\ dep = [d \in DFZ |-> NoDeployment]
    /\ res = [d \in DFZ |-> NoResult]
    /\ track = [d \in DFZ |-> NoTrack]
    /\ envSteps = 0
    /\ fails = 0
    /\ nextUID = 2

\* One API call: it succeeds or fails; F is the set of outcomes the
\* specification allows.
Outcome(F, ok) ==
    /\ ok \in F
    /\ ok \/ envSteps + fails < MaxDisturb
    /\ fails' = IF ok THEN fails ELSE fails + 1

\* Book-keeping of a step of d's reconcile: acq = it set Ownership=True/Acquired,
\* wrote = it changed the target, apiErr = an API call of it failed.
Tracked(d, acq, wrote, apiErr) ==
    [e \in DFZ |->
        IF e = d
        THEN [track[d] EXCEPT !.acquired = @ \/ acq, !.wrote = @ \/ wrote,
                              !.apiErr = @ \/ apiErr]
        ELSE IF wrote /\ pc[e] \in HoldsTarget
        THEN [track[e] EXCEPT !.foreign = TRUE]
        ELSE track[e]]

\* A write to the target ends "nothing has changed since" for every other DFZ.
HistStep(d, wrote, own) ==
    [e \in DFZ |-> IF e = d THEN own
                   ELSE IF wrote THEN [hist[e] EXCEPT !.last = NoLast] ELSE hist[e]]
Invalidated == [e \in DFZ |-> [hist[e] EXCEPT !.last = NoLast]]

\* A status without the conditions' lastTransitionTime.
Strip(st) ==
    [st EXCEPT !.conditions =
        [i \in 1..Len(st.conditions) |-> [st.conditions[i] EXCEPT !.lastTransitionTime = 0]]]

OthersDisturbed ==
    [e \in DFZ |-> IF pc[e] \in HoldsTarget THEN [track[e] EXCEPT !.foreign = TRUE]
                   ELSE track[e]]

Apply(d, r) ==
    /\ mem' = [mem EXCEPT ![d] = r.m]
    /\ pc' = [pc EXCEPT ![d] = r.pc]
    /\ res' = [res EXCEPT ![d] = r.res]

\* ------------------------------------------------------------- Reconcile
\* Load the DFZ and snapshot its status (newStatusTracker).
Load(d) ==
    /\ pc[d] = "idle"
    /\ dfz[d].exists
    /\ mem' = [mem EXCEPT ![d] = dfz[d]]
    /\ snap' = [snap EXCEPT ![d] = dfz[d].status]
    /\ pc' = [pc EXCEPT ![d] = "finalizer"]
    /\ UNCHANGED << clock, target, dfz, dep, res, track, hist, envSteps, fails, nextUID >>

ensureFinalizer_Skip(latest) == latest

\* ensureFinalizer: patches the latest DFZ unless it already has the token.
ensureFinalizer(latest) ==
    IF latest.finalizers > 0 THEN latest ELSE [latest EXCEPT !.finalizers = @ + 1]

removeFinalizer_Keep(latest) == latest

\* removeFinalizer: removeString drops every copy of the token; an object
\* with a deletion timestamp and no finalizer left is gone.
removeFinalizer(latest) ==
    IF latest.finalizers = 0 THEN latest
    ELSE IF latest.deleting THEN NoDFZ
    ELSE [latest EXCEPT !.finalizers = 0]

Finalizer_IgnoreError(d, F) ==
    /\ pc[d] = "finalizer"
    /\ IF mem[d].deleting
       THEN /\ pc' = [pc EXCEPT ![d] = "delGet"]
            /\ UNCHANGED << dfz, mem, res, track, fails >>
       ELSE IF mem[d].finalizers > 0
       THEN /\ pc' = [pc EXCEPT ![d] = "getTarget"]
            /\ UNCHANGED << dfz, mem, res, track, fails >>
       ELSE \E ok \in BOOLEAN :
            /\ Outcome(F, ok)
            /\ dfz' = IF ok /\ dfz[d].exists
                      THEN [dfz EXCEPT ![d] = ensureFinalizer(@)] ELSE dfz
            /\ pc' = [pc EXCEPT ![d] = "getTarget"]
            /\ track' = Tracked(d, FALSE, FALSE, ~(ok /\ dfz[d].exists))
            /\ UNCHANGED << mem, res >>
    /\ UNCHANGED << clock, target, snap, dep, hist, envSteps, nextUID >>

\* Reconcile, "Finalizer handling".
Finalizer(d, F) ==
    /\ pc[d] = "finalizer"
    /\ IF mem[d].deleting
       THEN /\ pc' = [pc EXCEPT ![d] = "delGet"]
            /\ UNCHANGED << dfz, mem, res, track, fails >>
       ELSE IF mem[d].finalizers > 0
       THEN /\ pc' = [pc EXCEPT ![d] = "getTarget"]
            /\ UNCHANGED << dfz, mem, res, track, fails >>
       ELSE \E ok \in BOOLEAN :
            /\ Outcome(F, ok)
            /\ IF ok /\ dfz[d].exists
               THEN /\ dfz' = [dfz EXCEPT ![d] = ensureFinalizer(@)]
                    /\ pc' = [pc EXCEPT ![d] = "getTarget"]
                    /\ UNCHANGED << mem, res, track >>
               ELSE /\ Apply(d, ReturnErr(mem[d], clock))
                    /\ track' = Tracked(d, FALSE, FALSE, TRUE)
                    /\ UNCHANGED dfz
    /\ UNCHANGED << clock, target, snap, dep, hist, envSteps, nextUID >>

\* Reconcile, "Fetch the target Deployment" up to the first API call after it.
GetTarget(d, F) ==
    /\ pc[d] = "getTarget"
    /\ \E ok \in BOOLEAN, addr \in 1..MaxAddr :
        /\ Outcome(F, ok)
        /\ IF ~ok
           THEN /\ Apply(d, healthConflict(mem[d], "read error", clock))
                /\ track' = Tracked(d, FALSE, FALSE, TRUE)
                /\ UNCHANGED dep
           ELSE IF ~target.exists
           THEN /\ Apply(d, targetNotFound(mem[d], clock))
                /\ UNCHANGED << dep, track >>
           ELSE LET r == afterFetch(d, mem[d], target, addr, clock)
                IN  /\ Apply(d, r)
                    /\ dep' = [dep EXCEPT ![d] = target]
                    /\ track' = Tracked(d, r.acq, FALSE, FALSE)
    /\ UNCHANGED << clock, target, dfz, snap, hist, envSteps, nextUID >>

\* ensureTemplateHashAnno, first time: store the hash on the latest DFZ.
TemplateHash(d, F) ==
    /\ pc[d] = "templateHash"
    /\ \E ok \in BOOLEAN, addr \in {1} :     \* addresses are interchangeable: the first is 1
        /\ Outcome(F, ok)
        /\ IF ok /\ dfz[d].exists
           THEN LET r == Router(d, mem[d], dep[d], clock)
                IN  /\ dfz' = [dfz EXCEPT ![d].tplAnno =
                                  IF @ # 0 THEN @ ELSE hashTemplate(dep[d], addr)]
                    /\ Apply(d, r)
                    /\ track' = Tracked(d, r.acq, FALSE, FALSE)
           ELSE /\ Apply(d, healthConflict(mem[d], "template hash patch failed", clock))
                /\ track' = Tracked(d, FALSE, FALSE, TRUE)
                /\ UNCHANGED dfz
    /\ UNCHANGED << clock, target, snap, dep, hist, envSteps, nextUID >>

patchDeploymentAnno_NoDelete(latest, val) ==
    IF val = "" THEN latest ELSE [latest EXCEPT !.frozenBy = val]

\* patchDeploymentAnno / patchDeploymentReplicas on the latest Deployment.
patchDeploymentAnno(latest, val) == [latest EXCEPT !.frozenBy = val]
patchDeploymentReplicas(latest, replicas) == [latest EXCEPT !.replicas = replicas]

\* handlePendingOrFreezing: the acquisition write and what follows it.
Acquire(d, F) ==
    /\ pc[d] = "acquire"
    /\ \E ok \in BOOLEAN :
        /\ Outcome(F, ok)
        /\ IF ok /\ target.exists
           THEN LET new == patchDeploymentAnno(target, Owner(d))
                    m1 == setCondition(mem[d], "Ownership", "True", "Acquired",
                                       "DFZ " \o d \o " owns Deployment " \o Namespace \o "/" \o dep[d].name,
                                       clock)
                IN  /\ target' = new
                    /\ Apply(d, hpfScale(m1, dep[d], clock))
                    /\ track' = Tracked(d, TRUE, new # target, FALSE)
                    /\ hist' = HistStep(d, new # target, [hist[d] EXCEPT !.wroteAnno = TRUE])
           ELSE /\ Apply(d, healthConflict(mem[d], "cannot scale down yet", clock))
                /\ track' = Tracked(d, FALSE, FALSE, TRUE)
                /\ UNCHANGED << target, hist >>
    /\ UNCHANGED << clock, dfz, snap, dep, envSteps, nextUID >>

ScaleDown_FailShort(d, F) ==
    /\ pc[d] = "scaleDown"
    /\ \E ok \in BOOLEAN :
        /\ Outcome(F, ok)
        /\ IF ok /\ target.exists
           THEN LET new == patchDeploymentReplicas(target, 0)
                IN  /\ target' = new
                    /\ Apply(d, Return(setPhase(setCondition(mem[d], "FreezeProgress", "False",
                                           "ScalingDown", "Scaling Deployment to 0", clock),
                                           PhaseFreezing),
                                       requeueShort, clock))
                    /\ track' = Tracked(d, FALSE, new # target, FALSE)
                    /\ hist' = HistStep(d, new # target,
                                        [hist[d] EXCEPT !.preScale =
                                            IF @ = Unset THEN target.replicas ELSE @])
           ELSE /\ Apply(d, Return(setPhase(setCondition(mem[d], "FreezeProgress", "False",
                                       "AwaitingPDB", "cannot scale down yet", clock),
                                       PhaseFreezing),
                                   requeueShort, clock))
                /\ track' = Tracked(d, FALSE, FALSE, TRUE)
                /\ UNCHANGED << target, hist >>
    /\ UNCHANGED << clock, dfz, snap, dep, envSteps, nextUID >>

\* handlePendingOrFreezing: "Scale to zero".
ScaleDown(d, F) ==
    /\ pc[d] = "scaleDown"
    /\ \E ok \in BOOLEAN :
        /\ Outcome(F, ok)
        /\ IF ok /\ target.exists
           THEN LET new == patchDeploymentReplicas(target, 0)
                IN  /\ target' = new
                    /\ Apply(d, Return(setPhase(setCondition(mem[d], "FreezeProgress", "False",
                                           "ScalingDown", "Scaling Deployment to 0", clock),
                                           PhaseFreezing),
                                       requeueShort, clock))
                    /\ track' = Tracked(d, FALSE, new # target, FALSE)
                    /\ hist' = HistStep(d, new # target,
                                        [hist[d] EXCEPT !.preScale =
                                            IF @ = Unset THEN target.replicas ELSE @])
           ELSE /\ Apply(d, Return(setPhase(setCondition(mem[d], "FreezeProgress", "False",
                                       "AwaitingPDB", "cannot scale down yet", clock),
                                       PhaseFreezing),
                                   requeueMedium, clock))
                /\ track' = Tracked(d, FALSE, FALSE, TRUE)
                /\ UNCHANGED << target, hist >>
    /\ UNCHANGED << clock, dfz, snap, dep, envSteps, nextUID >>

Restore_BestEffort(d, F) ==
    /\ pc[d] = "restore"
    /\ \E ok \in BOOLEAN :
        /\ Outcome(F, ok)
        /\ LET new == IF ok /\ target.exists
                      THEN patchDeploymentReplicas(target, mem[d].status.originalReplicas)
                      ELSE target
           IN  /\ target' = new
               /\ Apply(d, Goto(mem[d], "clear", clock))
               /\ track' = Tracked(d, FALSE, new # target, ~(ok /\ target.exists))
               /\ hist' = HistStep(d, new # target, hist[d])
    /\ UNCHANGED << clock, dfz, snap, dep, envSteps, nextUID >>

\* handleUnfreezing: restore the recorded replica count.
Restore(d, F) ==
    /\ pc[d] = "restore"
    /\ \E ok \in BOOLEAN :
        /\ Outcome(F, ok)
        /\ IF ok /\ target.exists
           THEN LET new == patchDeploymentReplicas(target, mem[d].status.originalReplicas)
                IN  /\ target' = new
                    /\ Apply(d, Goto(mem[d], "clear", clock))
                    /\ track' = Tracked(d, FALSE, new # target, FALSE)
                    /\ hist' = HistStep(d, new # target, hist[d])
           ELSE /\ Apply(d, Return(setCondition(mem[d], "UnfreezeProgress", "False",
                                       "QuotaExceeded", "failed to restore replicas", clock),
                                   requeueMedium, clock))
                /\ track' = Tracked(d, FALSE, FALSE, TRUE)
                /\ UNCHANGED << target, hist >>
    /\ UNCHANGED << clock, dfz, snap, dep, envSteps, nextUID >>

Clear_AbortOnFailure(d, F) ==
    /\ pc[d] = "clear"
    /\ \E ok \in BOOLEAN :
        /\ Outcome(F, ok)
        /\ IF ok /\ target.exists
           THEN LET new == patchDeploymentAnno(target, "")
                    m1 == setCondition(mem[d], "UnfreezeProgress", "True", "ScaledUp",
                              "Deployment restored to "
                                  \o ToString(mem[d].status.originalReplicas) \o " replicas",
                              clock)
                    m2 == setCondition(m1, "Ownership", "False", "Released",
                              "Ownership released after unfreeze", clock)
                IN  /\ target' = new
                    /\ Apply(d, Return(setPhase(m2, PhaseCompleted), 0, clock))
                    /\ track' = Tracked(d, FALSE, new # target, FALSE)
                    /\ hist' = HistStep(d, new # target, hist[d])
           ELSE /\ Apply(d, Return(setPhase(setCondition(mem[d], "Health", "False",
                                       "APIConflict", "failed to clear ownership", clock),
                                       PhaseAborted),
                                   0, clock))
                /\ track' = Tracked(d, FALSE, FALSE, TRUE)
                /\ UNCHANGED << target, hist >>
    /\ UNCHANGED << clock, dfz, snap, dep, envSteps, nextUID >>

\* handleUnfreezing: release ownership and complete.
Clear(d, F) ==
    /\ pc[d] = "clear"
    /\ \E ok \in BOOLEAN :
        /\ Outcome(F, ok)
        /\ IF ok /\ target.exists
           THEN LET new == patchDeploymentAnno(target, "")
                    m1 == setCondition(mem[d], "UnfreezeProgress", "True", "ScaledUp",
                              "Deployment restored to "
                                  \o ToString(mem[d].status.originalReplicas) \o " replicas",
                              clock)
                    m2 == setCondition(m1, "Ownership", "False", "Released",
                              "Ownership released after unfreeze", clock)
                IN  /\ target' = new
                    /\ Apply(d, Return(setPhase(m2, PhaseCompleted), 0, clock))
                    /\ track' = Tracked(d, FALSE, new # target, FALSE)
                    /\ hist' = HistStep(d, new # target, hist[d])
           ELSE /\ Apply(d, healthConflict(mem[d], "failed to clear ownership", clock))
                /\ track' = Tracked(d, FALSE, FALSE, TRUE)
                /\ UNCHANGED << target, hist >>
    /\ UNCHANGED << clock, dfz, snap, dep, envSteps, nextUID >>

\* The reconcile is over: forget its locals.
Forget(d) ==
    /\ pc' = [pc EXCEPT ![d] = "idle"]
    /\ mem' = [mem EXCEPT ![d] = NoDFZ]
    /\ snap' = [snap EXCEPT ![d] = EmptyStatus]
    /\ dep' = [dep EXCEPT ![d] = NoDeployment]
    /\ res' = [res EXCEPT ![d] = NoResult]
    /\ track' = [track EXCEPT ![d] = NoTrack]

\* commitStatus (deferred): write the status once if it changed.
commitStatus(d, latest, ok) ==
    IF statusUnchanged(snap[d], mem[d].status) \/ ~ok \/ ~latest.exists
    THEN latest
    ELSE [latest EXCEPT !.status = mem[d].status]

Commit(d, F) ==
    /\ pc[d] = "commit"
    /\ \E ok \in BOOLEAN :
        /\ Outcome(F, ok)
        /\ ok \/ ~statusUnchanged(snap[d], mem[d].status)
        /\ dfz' = [dfz EXCEPT ![d] = commitStatus(d, @, ok)]
        /\ hist' = [hist EXCEPT ![d].last =
                       IF snap[d].phase \in Terminal /\ ok /\ dfz[d].exists
                          /\ ~track[d].apiErr /\ ~track[d].foreign
                       THEN [valid |-> TRUE, status |-> Strip(commitStatus(d, dfz[d], ok).status)]
                       ELSE NoLast]
    /\ Forget(d)
    /\ UNCHANGED << clock, target, envSteps, nextUID >>

\* ---------------------------------------------------------- deletion path
\* reconcileDelete up to the ownership check.
DelGet(d, F) ==
    /\ pc[d] = "delGet"
    /\ \E ok \in BOOLEAN :
        /\ Outcome(F, ok)
        /\ IF ~ok
           THEN /\ Apply(d, ReturnErr(mem[d], clock))
                /\ track' = Tracked(d, FALSE, FALSE, TRUE)
                /\ UNCHANGED dep
           ELSE IF ~target.exists \/ target.frozenBy # Owner(d)
           THEN /\ pc' = [pc EXCEPT ![d] = "removeFinalizer"]
                /\ UNCHANGED << mem, res, dep, track >>
           ELSE /\ pc' = [pc EXCEPT ![d] = "delRestore"]
                /\ dep' = [dep EXCEPT ![d] = target]
                /\ UNCHANGED << mem, res, track >>
    /\ UNCHANGED << clock, target, dfz, snap, hist, envSteps, nextUID >>

\* reconcileDelete while the Deployment API is down: the read fails (not with
\* not-found) on every attempt, however often the reconcile is retried.
DelGetDown(d) ==
    /\ pc[d] = "delGet"
    /\ Apply(d, ReturnErr(mem[d], clock))
    /\ track' = Tracked(d, FALSE, FALSE, TRUE)
    /\ UNCHANGED << clock, target, dfz, snap, dep, hist, envSteps, fails, nextUID >>

DelRestore_Requeue(d, F) ==
    /\ pc[d] = "delRestore"
    /\ \E ok \in BOOLEAN :
        /\ Outcome(F, ok)
        /\ LET replicas == IF mem[d].status.originalReplicas # Nil
                           THEN mem[d].status.originalReplicas ELSE defaultReplicasCount
               new == IF ok /\ target.exists
                      THEN patchDeploymentReplicas(target, replicas) ELSE target
           IN  /\ target' = new
               /\ track' = Tracked(d, FALSE, new # target, ~ok)
               /\ hist' = HistStep(d, new # target, hist[d])
               /\ IF ok
                  THEN pc' = [pc EXCEPT ![d] = "delClear"] /\ UNCHANGED << mem, res >>
                  ELSE Apply(d, Return(mem[d], requeueMedium, clock))
    /\ UNCHANGED << clock, dfz, snap, dep, envSteps, nextUID >>

\* reconcileDelete: restore replicas, best effort.
DelRestore(d, F) ==
    /\ pc[d] = "delRestore"
    /\ \E ok \in BOOLEAN :
        /\ Outcome(F, ok)
        /\ LET replicas == IF mem[d].status.originalReplicas # Nil
                           THEN mem[d].status.originalReplicas ELSE defaultReplicasCount
               new == IF ok /\ target.exists
                      THEN patchDeploymentReplicas(target, replicas) ELSE target
           IN  /\ target' = new
               /\ track' = Tracked(d, FALSE, new # target, ~ok)
               /\ hist' = HistStep(d, new # target, hist[d])
    /\ pc' = [pc EXCEPT ![d] = "delClear"]
    /\ UNCHANGED << clock, dfz, mem, snap, dep, res, envSteps, nextUID >>

DelClear_Skip(d, F) ==
    /\ pc[d] = "delClear"
    /\ \E ok \in BOOLEAN :
        /\ Outcome(F, ok)
        /\ track' = Tracked(d, FALSE, FALSE, ~ok)
    /\ pc' = [pc EXCEPT ![d] = "removeFinalizer"]
    /\ UNCHANGED << clock, target, hist, dfz, mem, snap, dep, res, envSteps, nextUID >>

\* reconcileDelete: clear the ownership annotation, best effort.
DelClear(d, F) ==
    /\ pc[d] = "delClear"
    /\ \E ok \in BOOLEAN :
        /\ Outcome(F, ok)
        /\ LET new == IF ok /\ target.exists THEN patchDeploymentAnno(target, "") ELSE target
           IN  /\ target' = new
               /\ track' = Tracked(d, FALSE, new # target, ~ok)
               /\ hist' = HistStep(d, new # target, hist[d])
    /\ pc' = [pc EXCEPT ![d] = "removeFinalizer"]
    /\ UNCHANGED << clock, dfz, mem, snap, dep, res, envSteps, nextUID >>

\* Reconcile, deletion branch: removeFinalizer, then return.
RemoveFinalizer(d, F) ==
    /\ pc[d] = "removeFinalizer"
    /\ IF mem[d].finalizers = 0
       THEN /\ Apply(d, Return(mem[d], 0, clock))
            /\ UNCHANGED << dfz, track, fails >>
       ELSE \E ok \in BOOLEAN :
            /\ Outcome(F, ok)
            /\ IF ok /\ dfz[d].exists
               THEN /\ dfz' = [dfz EXCEPT ![d] = removeFinalizer(@)]
                    /\ Apply(d, Return(mem[d], 0, clock))
                    /\ UNCHANGED track
               ELSE /\ Apply(d, ReturnErr(mem[d], clock))
                    /\ track' = Tracked(d, FALSE, FALSE, TRUE)
                    /\ UNCHANGED dfz
    /\ UNCHANGED << clock, target, snap, dep, hist, envSteps, nextUID >>

\* The operator process dies in the middle of a reconcile: nothing of the
\* in-memory DFZ survives.
Crash(d) ==
    /\ pc[d] # "idle"
    /\ envSteps + fails < MaxDisturb
    /\ envSteps' = envSteps + 1
    /\ Forget(d)
    /\ hist' = [hist EXCEPT ![d].last = NoLast]
    /\ UNCHANGED << clock, target, dfz, fails, nextUID >>

\* --------------------------------------------------------- startup scan
overdue_AnyFrozen(st, now) == st.phase = PhaseFrozen

\* registerStartupRunnable: the test that selects a listed DFZ.
overdue(st, now) ==
    /\ st.phase = PhaseFrozen
    /\ st.freezeUntil # Nil
    /\ ~(st.freezeUntil > now)

\* The operator restarts: the reconciles in flight die with the old process;
\* the startup runnable of the new one lists the DFZs and pushes an event for
\* every overdue Frozen one (pc = "enqueued": its request is in the queue).
Restart ==
    /\ envSteps + fails < MaxDisturb
    /\ envSteps' = envSteps + 1
    /\ pc' = [d \in DFZ |-> IF dfz[d].exists /\ overdue(dfz[d].status, clock)
                             THEN "enqueued" ELSE "idle"]
    /\ mem' = [d \in DFZ |-> NoDFZ]
    /\ snap' = [d \in DFZ |-> EmptyStatus]
    /\ dep' = [d \in DFZ |-> NoDeployment]
    /\ res' = [d \in DFZ |-> NoResult]
    /\ track' = [d \in DFZ |-> NoTrack]
    /\ hist' = Invalidated
    /\ UNCHANGED << clock, target, dfz, fails, nextUID >>

\* The reconcile of a request that the startup scan pushed: Reconcile from
\* its first line, as for any other request.
ScanReconcile(d) ==
    /\ pc[d] = "enqueued"
    /\ IF dfz[d].exists
       THEN /\ mem' = [mem EXCEPT ![d] = dfz[d]]
            /\ snap' = [snap EXCEPT ![d] = dfz[d].status]
            /\ pc' = [pc EXCEPT ![d] = "finalizer"]
            /\ track' = [track EXCEPT ![d].scan = TRUE]
       ELSE /\ pc' = [pc EXCEPT ![d] = "idle"]
            /\ UNCHANGED << mem, snap, track >>
    /\ UNCHANGED << clock, target, dfz, dep, res, hist, envSteps, fails, nextUID >>

\* ------------------------------------------------- the rest of the cluster
\* The clock unit is a second, the resolution of the persisted timestamps; a
\* reconcile takes less than that.
Tick ==
    /\ \A d \in DFZ : pc[d] = "idle"
    /\ \/ clock < MaxClock
       \/ \E d \in DFZ : dfz[d].exists /\ dfz[d].status.freezeUntil > clock
    /\ clock' = clock + 1
    /\ UNCHANGED << target, dfz, pc, mem, snap, dep, res, track, hist, envSteps, fails, nextUID >>

\* The Deployment controller brings .status in line with .spec.replicas.
DeploymentController ==
    /\ target.exists
    /\ LET st == IF target.replicas = 0 THEN StatusZero ELSE StatusRunning
       IN  /\ target.st # st
           /\ target' = [target EXCEPT !.st = st]
    /\ hist' = Invalidated
    /\ UNCHANGED << clock, dfz, pc, mem, snap, dep, res, track, envSteps, fails, nextUID >>

EnvChange(new) ==
    /\ envSteps + fails < MaxDisturb
    /\ envSteps' = envSteps + 1
    /\ new # target
    /\ target' = new
    /\ track' = OthersDisturbed
    /\ hist' = Invalidated
    /\ UNCHANGED << clock, dfz, pc, mem, snap, dep, res, fails >>

\* Pods are still terminating or starting: any mix of the status counters.
EnvStatus ==
    /\ target.exists
    /\ target.replicas = 0
    /\ \E st \in StatusValues :
          /\ envSteps + fails < MaxDisturb
          /\ envSteps' = envSteps + 1
          /\ st # target.st
          /\ target' = [target EXCEPT !.st = st]
    /\ hist' = Invalidated
    /\ UNCHANGED << clock, dfz, pc, mem, snap, dep, res, track, fails, nextUID >>

EnvDeleteTarget ==
    /\ target.exists
    /\ EnvChange(NoDeployment)
    /\ UNCHANGED nextUID

EnvCreateTarget ==
    /\ ~target.exists
    /\ nextUID <= MaxUID
    /\ \E k \in 0..MaxReplicas :
          EnvChange(NewDeployment(nextUID, k, IF k = 0 THEN StatusZero ELSE StatusRunning))
    /\ nextUID' = nextUID + 1

\* The Deployment is deleted and created again under the same name.
EnvRecreateTarget ==
    /\ target.exists
    /\ nextUID <= MaxUID
    /\ \E k \in 0..MaxReplicas :
          EnvChange(NewDeployment(nextUID, k, IF k = 0 THEN StatusZero ELSE StatusRunning))
    /\ nextUID' = nextUID + 1

EnvScale ==
    /\ target.exists
    /\ \E k \in 0..MaxReplicas : EnvChange([target EXCEPT !.replicas = k])
    /\ UNCHANGED nextUID

EnvAnnotate ==
    /\ target.exists
    /\ \E v \in {"", OtherOwner} : EnvChange([target EXCEPT !.frozenBy = v])
    /\ UNCHANGED nextUID

EnvTemplate ==
    /\ target.exists
    /\ target.tpl < MaxTpl
    /\ EnvChange([target EXCEPT !.tpl = @ + 1])
    /\ UNCHANGED nextUID

\* kubectl delete of the DFZ.
UserDelete(d) ==
    /\ dfz[d].exists
    /\ ~dfz[d].deleting
    /\ envSteps + fails < MaxDisturb
    /\ envSteps' = envSteps + 1
    /\ dfz' = [dfz EXCEPT ![d] = IF @.finalizers = 0 THEN NoDFZ ELSE [@ EXCEPT !.deleting = TRUE]]
    /\ hist' = Invalidated
    /\ UNCHANGED << clock, target, pc, mem, snap, dep, res, track, fails, nextUID >>

\* kubectl edit of spec.durationSeconds: any other value the CRD admits; the
\* API server bumps metadata.generation.
UserEdit(d) ==
    /\ dfz[d].exists
    /\ ~dfz[d].deleting
    /\ envSteps + fails < MaxDisturb
    /\ envSteps' = envSteps + 1
    /\ \E dur \in (1..MaxDuration) \ {dfz[d].duration} :
          dfz' = [dfz EXCEPT ![d].duration = dur, ![d].gen = @ + 1]
    /\ hist' = Invalidated
    /\ UNCHANGED << clock, target, pc, mem, snap, dep, res, track, fails, nextUID >>

\* ---------------------------------------------------------- specifications
Handlers(d, F) ==
    \/ Finalizer(d, F)
    \/ GetTarget(d, F)
    \/ TemplateHash(d, F)
    \/ Acquire(d, F)
    \/ ScaleDown(d, F)
    \/ Restore(d, F)
    \/ Clear(d, F)
    \/ Commit(d, F)

Deletion(d, F) ==
    \/ DelGet(d, F)
    \/ DelRestore(d, F)
    \/ DelClear(d, F)
    \/ RemoveFinalizer(d, F)

\* One DFZ, every other writer of the cluster, failing API calls, crashes.
Init == InitWith(OneDFZ, ReplicaValues, {"", OtherOwner})
Next ==
    \/ \E d \in OneDFZ : Load(d) \/ Handlers(d, BOOLEAN) \/ Deletion(d, BOOLEAN)
    \/ \E d \in OneDFZ : Crash(d) \/ UserDelete(d)
    \/ Tick \/ DeploymentController
    \/ EnvStatus \/ EnvDeleteTarget \/ EnvCreateTarget \/ EnvRecreateTarget
    \/ EnvScale \/ EnvAnnotate \/ EnvTemplate
Spec == Init /\ [][Next]_vars

\* One DFZ alone with its target: no failing API call, no other writer.
InitCycle == InitWith(OneDFZ, 1..MaxReplicas, {""})
NextCycle ==
    \/ \E d \in OneDFZ : Load(d) \/ Handlers(d, {TRUE})
    \/ Tick \/ DeploymentController
SpecCycle == InitCycle /\ [][NextCycle]_vars

\* Two DFZs that name the same target; their reconciles interleave.
InitRace == InitWith(DFZ, {MaxReplicas}, {""})
NextRace ==
    \/ \E d \in DFZ : Load(d) \/ Handlers(d, {TRUE})
    \/ Tick \/ DeploymentController
SpecRace == InitRace /\ [][NextRace]_vars

\* One DFZ whose target stays, is written by nobody else and drains; API
\* calls fail at most MaxDisturb times; reconciles are requeued for ever, the
\* Deployment controller and the clock keep going.
InitLive == InitWith(OneDFZ, ReplicaValues, {""})
NextLive ==
    \/ \E d \in OneDFZ : Load(d) \/ Handlers(d, BOOLEAN)
    \/ Tick \/ DeploymentController
SpecLive ==
    /\ InitLive /\ [][NextLive]_vars
    /\ \A d \in OneDFZ : WF_vars(Load(d) \/ Handlers(d, BOOLEAN))
    /\ WF_vars(DeploymentController)
    /\ SF_vars(Tick)

\* One DFZ that the user deletes at some point of its cycle.  An API call of
\* the deletion path fails at most MaxDisturb times, except that the
\* Deployment API may be down for good; every reconcile is retried for ever.
InitDelete == InitWith(OneDFZ, ReplicaValues, {""})
NextDelete ==
    \/ \E d \in OneDFZ : Load(d) \/ Handlers(d, {TRUE}) \/ Deletion(d, BOOLEAN)
    \/ \E d \in OneDFZ : DelGetDown(d) \/ UserDelete(d)
    \/ Tick \/ DeploymentController
SpecDelete ==
    /\ InitDelete /\ [][NextDelete]_vars
    /\ \A d \in OneDFZ :
          WF_vars(Load(d) \/ Handlers(d, {TRUE}) \/ Deletion(d, BOOLEAN) \/ DelGetDown(d))
    /\ WF_vars(DeploymentController)
    /\ SF_vars(Tick)

\* One DFZ and an operator that restarts: the startup scan, the reconciles it
\* asks for and the ordinary ones, a user who deletes the DFZ, another writer
\* of frozen-by, failing API calls.
InitRestart == InitWith(OneDFZ, 1..MaxReplicas, {""})
NextRestart ==
    \/ \E d \in OneDFZ : Load(d) \/ Handlers(d, BOOLEAN) \/ Deletion(d, BOOLEAN)
    \/ \E d \in OneDFZ : ScanReconcile(d) \/ UserDelete(d)
    \/ Restart \/ Tick \/ DeploymentController \/ EnvAnnotate
SpecRestart == InitRestart /\ [][NextRestart]_vars

\* One DFZ whose spec.durationSeconds the user edits at any point of its
\* cycle; API calls may fail.
InitEdit == InitWith(OneDFZ, 1..MaxReplicas, {""})
NextEdit ==
    \/ \E d \in OneDFZ : Load(d) \/ Handlers(d, BOOLEAN)
    \/ \E d \in OneDFZ : UserEdit(d)
    \/ Tick \/ DeploymentController
SpecEdit == InitEdit /\ [][NextEdit]_vars

\* setCondition on its own, as the helper tests call it: a DFZ object whose
\* condition list starts empty, and calls with any type, status, reason and
\* message at the time of the call.
CondTypes == {"TypeA", "TypeB", "TypeC"}
CondStatuses == {"True", "False"}
CondReasons == {"AReason", "BNew"}
CondMessages == {"A msg", "B new"}

SetConditionCall(d) ==
    /\ \E t \in CondTypes, s \in CondStatuses, r \in CondReasons, msg \in CondMessages :
          dfz' = [dfz EXCEPT ![d] = setCondition(@, t, s, r, msg, clock)]
    /\ UNCHANGED << clock, target, pc, mem, snap, dep, res, track, hist, envSteps, fails, nextUID >>

\* metav1.Now() moves on between two calls.
ClockAdvance ==
    /\ clock < MaxNow
    /\ clock' = clock + 1
    /\ UNCHANGED << target, dfz, pc, mem, snap, dep, res, track, hist, envSteps, fails, nextUID >>

InitCond == InitWith(OneDFZ, {1}, {""})
NextCond == (\E d \in OneDFZ : SetConditionCall(d)) \/ ClockAdvance
SpecCond == InitCond /\ [][NextCond]_vars

\* ------------------------------------------------------------------ claims

\* C1: for every initial replica count k > 0 and every duration, a freeze and
\* unfreeze cycle of one DFZ without failing API calls and without another
\* writer ends with target.spec.replicas = k and no frozen-by annotation.
C1_RoundTrip ==
    \A d \in OneDFZ :
        (\/ dfz[d].status.phase = PhaseCompleted
         \/ pc[d] = "commit" /\ mem[d].status.phase = PhaseCompleted)
        => target.replicas = hist[d].k0 /\ target.frozenBy = ""

C1_Witness ==
    /\ dfz["d1"].status.phase = PhaseCompleted
    /\ dfz["d1"].duration = MaxDuration
    /\ hist["d1"].k0 = MaxReplicas
    /\ target.replicas = MaxReplicas

\* C2: whenever the persisted phase is Frozen or Unfreezing,
\* status.originalReplicas is set and equals the replica count the target had
\* right before this DFZ's first setReplicas(0) (an unset count runs as the
\* default of one replica).
C2_OriginalReplicas ==
    \A d \in OneDFZ :
        dfz[d].exists /\ dfz[d].status.phase \in {PhaseFrozen, PhaseUnfreezing}
        => /\ dfz[d].status.originalReplicas # Nil
           /\ hist[d].preScale # Unset
               => dfz[d].status.originalReplicas =
                      IF hist[d].preScale = Nil THEN defaultReplicasCount
                      ELSE hist[d].preScale

\* C3 as stated: at the end of a reconcile that set Ownership=True/Acquired
\* the target's frozen-by names this DFZ, also when a reconcile of another
\* DFZ on the same target interleaves.
C3_OwnerAtEnd ==
    \A d \in DFZ :
        pc[d] = "commit" /\ track[d].acquired
        => target.exists /\ target.frozenBy = Owner(d)

\* C3 amended: at the end of a reconcile that set Ownership=True/Acquired the
\* target's frozen-by names this DFZ, provided nobody else wrote the target
\* between this reconcile's read of it and its end.
C3_OwnerAtEndUndisturbed ==
    \A d \in DFZ :
        pc[d] = "commit" /\ track[d].acquired /\ ~track[d].foreign
        => target.exists /\ target.frozenBy = Owner(d)

C3_Witness ==
    /\ pc["d1"] = "commit" /\ track["d1"].acquired /\ ~track["d1"].foreign
    /\ track["d1"].wrote
    /\ pc["d2"] = "acquire"
    /\ target.frozenBy = Owner("d1")

\* C4 as stated: a DFZ whose phase is Denied has never written the target's
\* frozen-by annotation, for every interleaving of two DFZs on one target.
C4_DeniedNeverWrote ==
    \A d \in DFZ : dfz[d].status.phase = PhaseDenied => ~hist[d].wroteAnno

\* C4 amended: the reconcile that moves a DFZ to Denied writes nothing to the
\* target, and the frozen-by it read names another owner.
C4_DenyingReconcileWritesNothing ==
    \A d \in DFZ :
        pc[d] = "commit" /\ mem[d].status.phase = PhaseDenied /\ snap[d].phase # PhaseDenied
        => /\ ~track[d].wrote
           /\ dep[d].exists
           /\ dep[d].frozenBy \notin {"", Owner(d)}

C4_Witness ==
    /\ pc["d1"] = "commit" /\ mem["d1"].status.phase = PhaseDenied
    /\ snap["d1"].phase = PhaseFreezing
    /\ hist["d1"].wroteAnno
    /\ dep["d1"].frozenBy = Owner("d2")

\* The phase edges of the claim and the phase edges of the engine.
ClaimedEdges ==
    { <<"", PhaseFreezing>>, <<PhasePending, PhaseFreezing>>,
      <<PhaseFreezing, PhaseFrozen>>, <<PhaseFrozen, PhaseUnfreezing>>,
      <<PhaseUnfreezing, PhaseCompleted>>,
      <<PhasePending, PhaseDenied>>, <<PhaseFreezing, PhaseDenied>>,
      <<PhaseFreezing, PhaseAborted>>, <<PhaseFrozen, PhaseAborted>> }

EngineEdges ==
    ClaimedEdges \cup
    { <<"", PhasePending>>, <<"", PhaseFrozen>>, <<"", PhaseDenied>>, <<"", PhaseAborted>>,
      <<PhasePending, PhaseFrozen>>, <<PhasePending, PhaseAborted>>,
      <<PhaseUnfreezing, PhaseAborted>>,
      <<PhaseCompleted, PhaseAborted>>, <<PhaseDenied, PhaseAborted>> }

PhaseEdgesIn(E) ==
    \A d \in OneDFZ :
        dfz[d].exists /\ dfz'[d].exists /\ dfz'[d].status.phase # dfz[d].status.phase
        => <<dfz[d].status.phase, dfz'[d].status.phase>> \in E

\* C5 as stated: every change of the persisted phase is one of
\* (empty or Pending) -> Freezing, Freezing -> Frozen, Frozen -> Unfreezing,
\* Unfreezing -> Completed, Pending or Freezing -> Denied,
\* Freezing or Frozen -> Aborted.
C5_ClaimedEdgesOnly == [][PhaseEdgesIn(ClaimedEdges)]_vars

\* C5 amended: every change of the persisted phase is one of the claimed edges
\* or one of empty -> Pending, (empty or Pending) -> Frozen, empty -> Denied,
\* (empty, Pending, Unfreezing, Completed or Denied) -> Aborted.
C5_EngineEdgesOnly == [][PhaseEdgesIn(EngineEdges)]_vars

C5_Witness ==
    /\ pc["d1"] = "commit" /\ snap["d1"].phase = PhaseUnfreezing
    /\ mem["d1"].status.phase = PhaseAborted
    /\ dfz["d1"].status.phase = PhaseUnfreezing

\* C6: once the persisted phase is Completed, Denied or Aborted no later
\* reconcile changes it, whatever happens to the target.
C6_TerminalStays ==
    [][\A d \in OneDFZ :
          dfz[d].exists /\ dfz[d].status.phase \in Terminal /\ dfz'[d].exists
          => dfz'[d].status.phase = dfz[d].status.phase]_vars

C8_TerminalIdempotent ==
    \A d \in OneDFZ :
        /\ pc[d] = "commit" /\ hist[d].last.valid
        /\ ~track[d].apiErr /\ ~track[d].foreign
        => /\ Strip(commitStatus(d, dfz[d], TRUE).status) = hist[d].last.status
           /\ ~track[d].wrote

\* C9: with reconciles, the Deployment controller and the clock scheduled
\* fairly, a target that stays and is written by nobody else, and API calls
\* that fail only finitely often, the DFZ eventually reaches Completed.
C9_EventuallyCompleted ==
    \A d \in OneDFZ : <>(dfz[d].status.phase = PhaseCompleted)

C9_Witness ==
    /\ dfz["d1"].status.phase = PhaseCompleted
    /\ fails = MaxDisturb
    /\ clock >= dfz["d1"].status.freezeUntil
    /\ target.replicas = dfz["d1"].status.originalReplicas
    /\ target.frozenBy = ""

\* The reconcile of d is at its end, d was Frozen when it began, the target it
\* read still carried d's frozen-by and its now() is before freezeUntil.
FrozenOwnedEarly(d) ==
    /\ pc[d] = "commit" /\ snap[d].phase = PhaseFrozen
    /\ dep[d].exists /\ dep[d].uid = snap[d].uid /\ dep[d].frozenBy = Owner(d)
    /\ snap[d].freezeUntil # Nil /\ res[d].now < snap[d].freezeUntil

FrozenKept(d) ==
    /\ mem[d].status.phase = PhaseFrozen
    /\ mem[d].status.freezeUntil = snap[d].freezeUntil
    /\ ~track[d].wrote
    /\ res[d].requeue > 0 /\ ~res[d].err

UnfreezingOnlyAfterDeadline(d) ==
    pc[d] = "commit" /\ snap[d].phase = PhaseFrozen /\ mem[d].status.phase = PhaseUnfreezing
    => snap[d].freezeUntil # Nil /\ res[d].now >= snap[d].freezeUntil

C11_FreezeUntilSet ==
    [][\A d \in OneDFZ :
          dfz'[d].exists /\ dfz'[d].status.phase = PhaseFrozen
          => /\ dfz'[d].status.freezeUntil # Nil
             /\ IF dfz[d].status.phase = PhaseFrozen
                THEN dfz'[d].status.freezeUntil = dfz[d].status.freezeUntil
                ELSE /\ pc[d] = "commit"
                     /\ dfz'[d].status.freezeUntil = res[d].now + dfz'[d].duration]_vars

C11_Witness ==
    /\ dfz["d1"].status.phase = PhaseFrozen
    /\ dfz["d1"].duration = MaxDuration
    /\ dfz["d1"].status.freezeUntil = MaxDuration
    /\ clock = 1

OnePerType(conds) ==
    \A i, j \in 1..Len(conds) : i # j => conds[i].type # conds[j].type

\* C12: after any sequence of reconciles from an empty status, the persisted
\* status.conditions and the in-memory one of a running reconcile hold at
\* most one entry per condition type.
C12_OneConditionPerType ==
    \A d \in OneDFZ :
        OnePerType(dfz[d].status.conditions) /\ OnePerType(mem[d].status.conditions)

C12_Witness ==
    /\ Len(dfz["d1"].status.conditions) >= 4
    /\ HasCond(dfz["d1"].status, "Ownership", "False", "Released")
    /\ HasCond(dfz["d1"].status, "FreezeProgress", "True", "ScaledToZero")

\* C13: a DFZ without deletion timestamp never carries the finalizer token
\* twice, carries it once a reconcile of it has returned without error, and
\* keeps it from then on.
C13_FinalizerOnce ==
    [][\A d \in OneDFZ :
          dfz'[d].exists /\ ~dfz'[d].deleting
          => /\ dfz'[d].finalizers <= 1
             /\ (pc[d] = "commit" /\ ~res[d].err) \/ dfz[d].finalizers = 1
                => dfz'[d].finalizers = 1]_vars

C13_Witness ==
    /\ dfz["d1"].exists /\ ~dfz["d1"].deleting
    /\ dfz["d1"].finalizers = 1
    /\ dfz["d1"].status.phase = PhaseFrozen
    /\ pc["d1"] = "commit" /\ ~res["d1"].err /\ snap["d1"].phase = PhaseFrozen

\* The reconcile of d is at its end; d wrote frozen-by earlier, was not yet
\* past Frozen when this reconcile began, and this reconcile read a frozen-by
\* that names another owner.
LostRace(d) ==
    /\ pc[d] = "commit" /\ hist[d].wroteAnno
    /\ snap[d].phase \in {"", PhasePending, PhaseFreezing, PhaseFrozen}
    /\ dep[d].exists /\ dep[d].frozenBy \notin {"", Owner(d)}

\* C14 as stated: of two DFZs that raced to acquire one target, the one that
\* frozen-by does not name is moved to Denied by its next reconcile.
C14_LoserDenied ==
    \A d \in DFZ : LostRace(d) => mem[d].status.phase = PhaseDenied

\* C14 amended: that DFZ is moved by its next reconcile to Denied if it was
\* still Pending or Freezing and to Aborted if it had already reached Frozen,
\* and that reconcile writes nothing to the target.
C14_LoserDeniedOrAborted ==
    \A d \in DFZ :
        LostRace(d)
        => /\ mem[d].status.phase =
                  IF snap[d].phase = PhaseFrozen THEN PhaseAborted ELSE PhaseDenied
           /\ ~track[d].wrote

C14_Witness ==
    /\ LostRace("d1") /\ snap["d1"].phase = PhaseFrozen
    /\ mem["d1"].status.phase = PhaseAborted
    /\ target.frozenBy = Owner("d2")
    /\ dfz["d2"].status.phase = PhaseFrozen

\* The deletion reconcile of d is at its end: d has a deletion timestamp, the
\* target it read carried d's frozen-by, nobody else wrote the target since.
DeletedOwner(d) ==
    /\ pc[d] = "commit" /\ mem[d].deleting
    /\ dep[d].exists /\ dep[d].frozenBy = Owner(d)
    /\ ~track[d].foreign

Released(d) ==
    /\ target.replicas = IF mem[d].status.originalReplicas # Nil
                         THEN mem[d].status.originalReplicas ELSE defaultReplicasCount
    /\ target.frozenBy = ""
    /\ ~dfz[d].exists
    /\ mem[d].status = snap[d]

\* C15 as stated: the reconcile of a DFZ that has a deletion timestamp and
\* owns the target sets spec.replicas to status.originalReplicas (1 if unset),
\* removes frozen-by and removes the finalizer so that the DFZ disappears; the
\* phase handlers are not run.
C15_DeleteReleases ==
    \A d \in OneDFZ : DeletedOwner(d) => Released(d)

\* C15 amended: as stated, when no API call of that reconcile fails.
C15_DeleteReleasesNoFailure ==
    \A d \in OneDFZ : DeletedOwner(d) /\ ~track[d].apiErr => Released(d)

C15_Witness ==
    /\ DeletedOwner("d1") /\ ~track["d1"].apiErr /\ track["d1"].wrote
    /\ snap["d1"].phase = PhaseFrozen
    /\ snap["d1"].originalReplicas = MaxReplicas
    /\ target.replicas = MaxReplicas /\ target.frozenBy = ""
    /\ ~dfz["d1"].exists

\* The reconcile of d is at its end and found no target Deployment.
NotFoundEnd(d) ==
    /\ pc[d] = "commit" /\ ~mem[d].deleting
    /\ ~dep[d].exists /\ ~track[d].apiErr

\* The conditions of type other than t are where and what they were.
OthersKept(old, new, t) ==
    /\ Len(new) = IF CondIndex(old, t) = 0 THEN Len(old) + 1 ELSE Len(old)
    /\ \A i \in 1..Len(old) : old[i].type # t => new[i] = old[i]

\* C16: a reconcile that does not find the target sets phase Pending if the
\* phase was empty or Pending and Aborted otherwise, upserts
\* TargetFound=False/NotFound and keeps the other conditions, asks for a
\* requeue after requeueMedium and writes nothing to a Deployment.
C16_TargetNotFound ==
    \A d \in OneDFZ :
        NotFoundEnd(d)
        => /\ mem[d].status.phase =
                  IF snap[d].phase \in {"", PhasePending} THEN PhasePending ELSE PhaseAborted
           /\ HasCond(mem[d].status, "TargetFound", "False", "NotFound")
           /\ OthersKept(snap[d].conditions, mem[d].status.conditions, "TargetFound")
           /\ res[d].requeue = requeueMedium /\ ~res[d].err
           /\ ~track[d].wrote

C16_Witness ==
    /\ NotFoundEnd("d1") /\ snap["d1"].phase = PhaseFrozen
    /\ Len(snap["d1"].conditions) = 2
    /\ Len(mem["d1"].status.conditions) = 3
    /\ mem["d1"].status.phase = PhaseAborted

\* The reconcile of d is at its end; status.targetRef.uid was set when it
\* began and the Deployment it read has another UID.
UIDMismatchEnd(d) ==
    /\ pc[d] = "commit" /\ ~mem[d].deleting
    /\ dep[d].exists /\ snap[d].uid # 0 /\ dep[d].uid # snap[d].uid

\* C17: a reconcile that reads a target whose UID differs from the set
\* status.targetRef.uid sets phase Aborted and TargetFound=False/UIDMismatch,
\* keeps the other conditions and writes nothing to the recreated Deployment.
C17_UIDMismatchAborts ==
    \A d \in OneDFZ :
        UIDMismatchEnd(d)
        => /\ mem[d].status.phase = PhaseAborted
           /\ HasCond(mem[d].status, "TargetFound", "False", "UIDMismatch")
           /\ OthersKept(snap[d].conditions, mem[d].status.conditions, "TargetFound")
           /\ mem[d].status.uid = snap[d].uid
           /\ ~track[d].wrote

C17_Witness ==
    /\ UIDMismatchEnd("d1") /\ snap["d1"].phase = PhaseFreezing
    /\ mem["d1"].status.phase = PhaseAborted
    /\ Len(snap["d1"].conditions) = 2
    /\ target.uid = 2 /\ target.replicas = MaxReplicas /\ target.frozenBy = ""

\* The reconcile of d is at its end; d was Frozen when it began and the
\* target it read carried no frozen-by or one that names another owner.
FrozenLostEnd(d) ==
    /\ pc[d] = "commit" /\ ~mem[d].deleting /\ snap[d].phase = PhaseFrozen
    /\ dep[d].exists /\ dep[d].uid = snap[d].uid
    /\ dep[d].frozenBy # Owner(d)

\* C18: a reconcile of a Frozen DFZ that reads a target whose frozen-by is
\* absent or names another owner sets Ownership=False/Lost and phase Aborted,
\* before or after freezeUntil, and never phase Unfreezing.
C18_OwnershipLostAborts ==
    \A d \in OneDFZ :
        FrozenLostEnd(d)
        => /\ mem[d].status.phase = PhaseAborted
           /\ HasCond(mem[d].status, "Ownership", "False", "Lost")
           /\ ~track[d].wrote

C18_Witness ==
    /\ FrozenLostEnd("d1") /\ dep["d1"].frozenBy = ""
    /\ res["d1"].now >= snap["d1"].freezeUntil
    /\ mem["d1"].status.phase = PhaseAborted

\* The reconcile of d is at its end; d was not past Freezing when it began,
\* it read its target with spec.replicas = 0 and some status count not zero,
\* the target was unowned or its own, and no API call failed.
StillDraining(d) ==
    /\ pc[d] = "commit" /\ ~mem[d].deleting /\ ~track[d].apiErr
    /\ snap[d].phase \in {"", PhasePending, PhaseFreezing}
    /\ dep[d].exists /\ snap[d].uid \in {0, dep[d].uid}
    /\ dep[d].frozenBy \in {"", Owner(d)}
    /\ dep[d].replicas = 0 /\ dep[d].st # StatusZero

\* C19: a reconcile enters Frozen only if the target it read had
\* spec.replicas = 0 and all four status counts 0; with spec.replicas = 0 and
\* a status count not zero it ends in Freezing with
\* FreezeProgress=False/ScalingDown and a requeue after requeueShort.
C19_DrainVerify ==
    \A d \in OneDFZ :
        /\ pc[d] = "commit" /\ snap[d].phase # PhaseFrozen
               /\ mem[d].status.phase = PhaseFrozen
           => dep[d].exists /\ dep[d].replicas = 0 /\ dep[d].st = StatusZero
        /\ StillDraining(d)
           => /\ mem[d].status.phase = PhaseFreezing
              /\ HasCond(mem[d].status, "FreezeProgress", "False", "ScalingDown")
              /\ res[d].requeue = requeueShort /\ ~res[d].err
              /\ ~track[d].wrote \/ dep[d].frozenBy = ""

C19_Witness ==
    /\ StillDraining("d1") /\ snap["d1"].phase = PhaseFreezing
    /\ dep["d1"].st = [StatusZero EXCEPT !.updated = 1]
    /\ mem["d1"].status.phase = PhaseFreezing
    /\ mem["d1"].status.freezeUntil = Nil

\* C20: while a DFZ is Frozen and now() is before status.freezeUntil the
\* target's spec.replicas is 0, also when another actor scales the target up
\* during the window: a reconcile of the Frozen DFZ that ends before
\* freezeUntil with the DFZ still Frozen, and during which nobody else wrote
\* the target, leaves the target at 0 replicas.
C20_FrozenHoldsZero ==
    \A d \in OneDFZ :
        /\ pc[d] = "commit" /\ ~mem[d].deleting
        /\ snap[d].phase = PhaseFrozen /\ mem[d].status.phase = PhaseFrozen
        /\ snap[d].freezeUntil # Nil /\ res[d].now < snap[d].freezeUntil
        /\ dep[d].exists /\ ~track[d].apiErr /\ ~track[d].foreign
        => target.exists /\ target.replicas = 0

\* C21: when the status commit of the reconcile that scaled the target down
\* is lost, the following reconciles still recover: a cycle that reaches
\* Completed has status.originalReplicas equal to the replica count before the
\* scale-down and has restored the target to that count.
C21_CycleRecovers ==
    \A d \in OneDFZ :
        dfz[d].status.phase = PhaseCompleted /\ hist[d].preScale \notin {Unset, Nil}
        => /\ dfz[d].status.originalReplicas = hist[d].preScale
           /\ target.replicas = hist[d].preScale

\* C22: between reconciles, a DFZ for which the engine has written the target
\* (frozen-by or replicas) has its persisted status.targetRef.uid set, also
\* when the status commit of the mutating reconcile failed.
C22_UIDPersistedAfterWrite ==
    \A d \in OneDFZ :
        /\ pc[d] = "idle"
        /\ dfz[d].exists
        /\ hist[d].wroteAnno \/ hist[d].preScale # Unset
        => dfz[d].status.uid # 0

C24_ChangedStatusIsWritten ==
    [][\A d \in OneDFZ :
          /\ pc[d] = "commit" /\ pc'[d] = "idle"
          /\ fails' = fails /\ envSteps' = envSteps
          /\ dfz[d].exists
          /\ mem[d].status # snap[d]
          => dfz'[d].status = mem[d].status]_vars

\* C25: the reconcile in which a DFZ moves to Denied or to Aborted (ownership
\* lost, UID mismatch, target not found) issues no write to the target.
C25_TerminalMoveWritesNothing ==
    \A d \in OneDFZ :
        /\ pc[d] = "commit"
        /\ mem[d].status.phase \in {PhaseDenied, PhaseAborted}
        /\ snap[d].phase # mem[d].status.phase
        => ~track[d].wrote

C25_Witness ==
    \E d \in OneDFZ :
        /\ pc[d] = "commit"
        /\ mem[d].status.phase = PhaseAborted
        /\ snap[d].phase = PhaseFrozen
        /\ hist[d].preScale # Unset
        /\ dep[d].exists /\ dep[d].frozenBy # Owner(d)

\* C26: a call of setCondition for a type changes at most the entry of that
\* type: every other condition keeps its status, reason, message and
\* lastTransitionTime and its place in the list; an entry of that type that
\* was present stays where it was, a new type is appended at the end.
C26_SetConditionFrame ==
    [][\A d \in OneDFZ :
          LET old == dfz[d].status.conditions
              new == dfz'[d].status.conditions
          IN  old # new =>
                \E t \in CondTypes :
                    /\ OthersKept(old, new, t)
                    /\ IF CondIndex(old, t) = 0
                       THEN new[Len(new)].type = t
                       ELSE new[CondIndex(old, t)].type = t]_vars

C26_Witness ==
    \E d \in OneDFZ :
        LET conds == dfz[d].status.conditions
        IN  /\ Len(conds) = 3
            /\ conds[1].type = "TypeB" /\ conds[1].lastTransitionTime = 1
            /\ conds[2].lastTransitionTime = 0
            /\ conds[3].lastTransitionTime = 0

\* C27: status.originalReplicas is written only while it is unset: once the
\* status holds a value, no step of any reconcile in any phase changes it,
\* neither in the persisted status nor in the in-memory DFZ, also when
\* somebody else has changed the target's replica count during Freezing.
C27_OriginalReplicasWriteOnce ==
    [][\A d \in OneDFZ :
          /\ dfz[d].exists /\ dfz'[d].exists /\ dfz[d].status.originalReplicas # Nil
             => dfz'[d].status.originalReplicas = dfz[d].status.originalReplicas
          /\ pc[d] # "idle" /\ pc'[d] # "idle" /\ mem[d].status.originalReplicas # Nil
             => mem'[d].status.originalReplicas = mem[d].status.originalReplicas]_vars

C27_Witness ==
    \E d \in OneDFZ :
        /\ pc[d] = "commit"
        /\ snap[d].phase = PhaseFreezing
        /\ snap[d].originalReplicas # Nil
        /\ dep[d].exists /\ dep[d].replicas \notin {Nil, 0, snap[d].originalReplicas}
        /\ track[d].wrote
        /\ mem[d].status.originalReplicas = snap[d].originalReplicas

\* C28: when the patch of the replicas to 0 fails, the reconcile ends with
\* FreezeProgress=False/AwaitingPDB, phase Freezing (not Frozen), freezeUntil
\* unset and a medium requeue, and the target is left as it was; the next
\* reconcile that still owns the target and reads a non-zero replica count
\* attempts the scale-down again.
C28_ScaleDownFailure ==
    [][\A d \in OneDFZ :
          /\ /\ pc[d] = "scaleDown" /\ pc'[d] = "commit"
             /\ fails' # fails \/ ~target.exists
             => /\ HasCond(mem'[d].status, "FreezeProgress", "False", "AwaitingPDB")
                /\ mem'[d].status.phase = PhaseFreezing
                /\ mem'[d].status.freezeUntil = Nil
                /\ res'[d].requeue = requeueMedium /\ ~res'[d].err
                /\ target' = target
          /\ /\ pc[d] \in {"getTarget", "templateHash"} /\ pc'[d] # "idle"
             /\ fails' = fails
             /\ snap[d].phase = PhaseFreezing
             /\ HasCond(snap[d], "FreezeProgress", "False", "AwaitingPDB")
             /\ dep'[d].exists /\ dep'[d].frozenBy = Owner(d)
             /\ dep'[d].uid = snap[d].uid
             /\ dep'[d].replicas # 0
             => pc'[d] \in {"scaleDown", "templateHash"}]_vars

C28_Witness ==
    \E d \in OneDFZ :
        /\ pc[d] = "commit"
        /\ HasCond(snap[d], "FreezeProgress", "False", "AwaitingPDB")
        /\ snap[d].freezeUntil = Nil
        /\ track[d].wrote
        /\ HasCond(mem[d].status, "FreezeProgress", "False", "ScalingDown")

\* C29: handleUnfreezing sets Completed only in a reconcile that started in
\* Unfreezing and in which both the restore and the removal of frozen-by
\* succeeded.  A failed restore leaves the phase Unfreezing with
\* UnfreezeProgress=False/QuotaExceeded and a medium requeue; a failed removal
\* of frozen-by leaves the phase Unfreezing with Health=False/APIConflict and
\* a short requeue.
C29_UnfreezingOutcomes ==
    [][\A d \in OneDFZ :
          LET failed == fails' # fails \/ ~target.exists
          IN  /\ /\ pc[d] # "idle" /\ pc'[d] # "idle"
                 /\ mem[d].status.phase # PhaseCompleted
                 /\ mem'[d].status.phase = PhaseCompleted
                 => /\ pc[d] = "clear" /\ ~failed
                    /\ snap[d].phase = PhaseUnfreezing
                    /\ ~track'[d].apiErr
                    /\ target'.frozenBy = ""
              /\ pc[d] = "restore" /\ pc'[d] \notin {"idle", "restore"} /\ ~failed
                 => /\ pc'[d] = "clear"
                    /\ target'.replicas = mem[d].status.originalReplicas
              /\ pc[d] = "restore" /\ pc'[d] \notin {"idle", "restore"} /\ failed
                 => /\ pc'[d] = "commit"
                    /\ mem'[d].status.phase = PhaseUnfreezing
                    /\ HasCond(mem'[d].status, "UnfreezeProgress", "False", "QuotaExceeded")
                    /\ res'[d].requeue = requeueMedium /\ ~res'[d].err
                    /\ target' = target
              /\ pc[d] = "clear" /\ pc'[d] \notin {"idle", "clear"} /\ failed
                 => /\ pc'[d] = "commit"
                    /\ mem'[d].status.phase = PhaseUnfreezing
                    /\ HasCond(mem'[d].status, "Health", "False", "APIConflict")
                    /\ res'[d].requeue = requeueShort /\ ~res'[d].err
                    /\ target' = target]_vars

C29_Witness ==
    \E d \in OneDFZ :
        /\ pc[d] = "commit"
        /\ snap[d].phase = PhaseUnfreezing
        /\ HasCond(snap[d], "UnfreezeProgress", "False", "QuotaExceeded")
        /\ mem[d].status.phase = PhaseCompleted
        /\ target.exists /\ target.frozenBy = ""
        /\ target.replicas = mem[d].status.originalReplicas

\* The step of d's reconcile is an API call that fails: a read of the target
\* with an error other than not-found, the template-hash patch, or the
\* acquisition of frozen-by.
TransientFailure(d) ==
    /\ pc[d] \in {"getTarget", "templateHash", "acquire"}
    /\ pc'[d] = "commit"
    /\ \/ fails' # fails
       \/ pc[d] = "templateHash" /\ ~dfz[d].exists
       \/ pc[d] = "acquire" /\ ~target.exists

\* C30 (as stated): a transient API error sets Health=False/APIConflict, asks
\* for a short requeue and leaves status.phase exactly as it was at reconcile
\* entry.
C30_TransientKeepsEntryPhase ==
    [][\A d \in OneDFZ :
          TransientFailure(d)
          => /\ HasCond(mem'[d].status, "Health", "False", "APIConflict")
             /\ res'[d].requeue = requeueShort /\ ~res'[d].err
             /\ mem'[d].status.phase = snap[d].phase]_vars

\* C30 (amended): a transient API error sets Health=False/APIConflict, asks
\* for a short requeue, writes nothing to the target and does not change the
\* phase the reconcile had reached: the phase is the one at reconcile entry,
\* except that a failed acquisition in a reconcile that started with the
\* empty phase leaves Pending, which the router set before the handler ran.
C30_TransientKeepsPhase ==
    [][\A d \in OneDFZ :
          TransientFailure(d)
          => /\ HasCond(mem'[d].status, "Health", "False", "APIConflict")
             /\ res'[d].requeue = requeueShort /\ ~res'[d].err
             /\ target' = target
             /\ mem'[d].status.phase = mem[d].status.phase
             /\ mem'[d].status.phase =
                    IF pc[d] = "acquire" /\ snap[d].phase = ""
                    THEN PhasePending ELSE snap[d].phase]_vars

C30_Witness ==
    \E d \in OneDFZ :
        /\ pc[d] = "commit"
        /\ track[d].apiErr /\ ~track[d].wrote
        /\ dep[d].exists /\ dep[d].frozenBy = ""
        /\ snap[d].phase = ""
        /\ mem[d].status.phase = PhasePending
        /\ HasCond(mem[d].status, "Health", "False", "APIConflict")
        /\ res[d].requeue = requeueShort

\* A step that is a restart of the operator (under SpecRestart).
RestartStep == envSteps' # envSteps /\ dfz' = dfz /\ target' = target

\* The startup scan enqueues exactly the Frozen DFZs whose freezeUntil is not
\* later than now.
ScanEnqueuesOverdue ==
    \A d \in OneDFZ :
        /\ RestartStep
           => (pc'[d] = "enqueued"
                 <=> /\ dfz[d].exists /\ dfz[d].status.phase = PhaseFrozen
                     /\ dfz[d].status.freezeUntil # Nil
                     /\ dfz[d].status.freezeUntil <= clock)
        /\ pc'[d] = "enqueued" /\ pc[d] # "enqueued" => RestartStep

\* C31 (as stated): the startup scan enqueues exactly the Frozen DFZs whose
\* freezeUntil is not later than now, and the reconcile of such a request
\* moves the DFZ to Unfreezing if it still owns the target.
C31_ScanUnfreezesOwner ==
    [][/\ ScanEnqueuesOverdue
       /\ \A d \in OneDFZ :
             /\ pc'[d] = "commit" /\ track'[d].scan
             /\ target'.exists /\ target'.frozenBy = Owner(d)
             => mem'[d].status.phase = PhaseUnfreezing]_vars

\* C31 (amended): the same, for a DFZ that is not being deleted and whose
\* reconcile reads the target without error and finds it owned.
C31_ScanUnfreezes ==
    [][/\ ScanEnqueuesOverdue
       /\ \A d \in OneDFZ :
             /\ pc'[d] = "commit" /\ track'[d].scan
             /\ ~mem'[d].deleting
             /\ dep'[d].exists /\ dep'[d].frozenBy = Owner(d)
             => /\ snap'[d].phase = PhaseFrozen
                /\ mem'[d].status.phase = PhaseUnfreezing
                /\ res'[d].requeue = requeueShort]_vars

C31_Witness ==
    \E d \in OneDFZ :
        /\ pc[d] = "commit" /\ track[d].scan
        /\ snap[d].phase = PhaseFrozen
        /\ mem[d].status.phase = PhaseUnfreezing
        /\ dep[d].frozenBy = Owner(d)

SpecChanged(st) == HasCond(st, "SpecChangedDuringFreeze", "True", "Observed")

\* C32: SpecChangedDuringFreeze is raised only by the step of a reconcile
\* that has read the target, for a DFZ that already carries a template-hash
\* annotation, and only when the hash it computes for the target differs
\* from the annotation; raising it leaves status.phase alone; once it is
\* True/Observed it stays in the in-memory and in the persisted conditions.
C32_SpecChangedAdvisory ==
    [][\A d \in OneDFZ :
          /\ pc[d] = "getTarget" /\ target.exists
             => \A addr \in 1..MaxAddr :
                   LET m == compareTemplateHash(mem[d], target, addr, clock)
                       r == afterFetch(d, mem[d], target, addr, clock)
                   IN  /\ m.status.phase = mem[d].status.phase
                       /\ SpecChanged(r.m.status) /\ ~SpecChanged(mem[d].status)
                          => /\ mem[d].tplAnno # 0
                             /\ hashTemplate(target, addr) # mem[d].tplAnno
          /\ /\ pc[d] \notin {"idle", "enqueued"} /\ pc'[d] # "idle"
             /\ ~SpecChanged(mem[d].status) /\ SpecChanged(mem'[d].status)
             => /\ pc[d] = "getTarget" /\ mem[d].tplAnno # 0
                /\ dep'[d].exists
          /\ /\ pc[d] \notin {"idle", "enqueued"} /\ pc'[d] # "idle"
             /\ SpecChanged(mem[d].status)
             => SpecChanged(mem'[d].status)
          /\ dfz[d].exists /\ dfz'[d].exists /\ SpecChanged(dfz[d].status)
             => SpecChanged(dfz'[d].status)]_vars

C32_Witness ==
    \E d \in OneDFZ :
        /\ dfz[d].exists
        /\ dfz[d].status.phase = PhaseCompleted
        /\ SpecChanged(dfz[d].status)
        /\ target.exists /\ target.tpl = 1
        /\ dfz[d].tplAnno = hashTemplate(target, 1)

\* C33: no step of a reconcile removes or overwrites a frozen-by annotation
\* that names another owner at the moment of the write: the acquisition, the
\* release in handleUnfreezing and the release on the deletion path change
\* frozen-by only when it is absent or equal to the DFZ's identity.
C33_ForeignLockUntouched ==
    [][\A d \in OneDFZ :
          /\ pc[d] \in {"acquire", "clear", "delClear"}
          /\ pc'[d] # pc[d]
          /\ target'.frozenBy # target.frozenBy
          => target.frozenBy \in {"", Owner(d)}]_vars

\* C34 (as stated): once a DFZ has been deleted, the target carries no
\* frozen-by equal to that DFZ's identity.
C34_NoOrphanedLock ==
    \A d \in OneDFZ :
        ~dfz[d].exists => ~(target.exists /\ target.frozenBy = Owner(d))

\* C34 (amended): a DFZ disappears while the target still carries its
\* identity in frozen-by only by the finalizer removal of a deletion
\* reconcile that read the lock as its own and in which an API call failed;
\* a deletion reconcile without a failed call leaves no lock behind.
C34_OrphanOnlyAfterFailure ==
    [][\A d \in OneDFZ :
          /\ dfz[d].exists /\ ~dfz'[d].exists
          /\ target'.exists /\ target'.frozenBy = Owner(d)
          => /\ pc[d] = "removeFinalizer"
             /\ dep[d].frozenBy = Owner(d)
             /\ track[d].apiErr]_vars

C34_Witness ==
    \E d \in OneDFZ :
        /\ pc[d] = "commit" /\ mem[d].deleting
        /\ ~dfz[d].exists
        /\ dep[d].frozenBy = Owner(d)
        /\ track[d].wrote /\ ~track[d].apiErr
        /\ target.exists /\ target.frozenBy = ""

\* C35: the engine writes to the target for a live DFZ only after
\* ensureFinalizer has succeeded: a reconcile whose ensureFinalizer fails
\* returns the error with the target and the status unchanged, a reconcile
\* that is about to write the target works for a DFZ that has the finalizer,
\* and a DFZ that holds the lock or has scaled the target down has the
\* finalizer as long as it exists.
C35_FinalizerBeforeWrites ==
    [][\A d \in OneDFZ :
          /\ pc[d] = "finalizer" /\ pc'[d] = "commit"
             => /\ res'[d].err
                /\ target' = target
                /\ dfz' = dfz
                /\ mem'[d].status = snap[d]
          /\ pc[d] \in {"acquire", "scaleDown", "restore", "clear"} /\ dfz[d].exists
             => dfz[d].finalizers > 0
          /\ /\ dfz[d].exists
             /\ \/ hist[d].wroteAnno
                \/ hist[d].preScale # Unset
                \/ target.exists /\ target.frozenBy = Owner(d)
             => dfz[d].finalizers > 0]_vars

C35_Witness ==
    \E d \in OneDFZ :
        /\ pc[d] = "commit" /\ res[d].err /\ track[d].apiErr
        /\ ~mem[d].deleting /\ mem[d].finalizers = 0
        /\ dfz[d].exists /\ dfz[d].finalizers = 0
        /\ target.exists /\ target.frozenBy = "" /\ target.replicas = hist[d].k0
        /\ ~hist[d].wroteAnno

\* The reconcile of d is at its end and d is a live DFZ.
LiveEnd(d) == pc[d] = "commit" /\ ~mem[d].deleting /\ dfz[d].exists

EngineWrite(d) ==
    /\ pc[d] \notin {"idle", "enqueued"}
    /\ pc'[d] # pc[d]
    /\ target' # target

\* C37: status.targetRef.uid is written only while it is unset, in the
\* reconcile's copy and in the stored object, and every write of the engine
\* to the target lands on the Deployment whose UID the reconcile has cached.
C37_UIDPinned ==
    [][\A d \in OneDFZ :
          /\ dfz[d].exists /\ dfz'[d].exists /\ dfz[d].status.uid # 0
             => dfz'[d].status.uid = dfz[d].status.uid
          /\ pc[d] \notin {"idle", "enqueued"} /\ pc'[d] \notin {"idle", "enqueued"}
                /\ mem[d].status.uid # 0
             => mem'[d].status.uid = mem[d].status.uid
          /\ EngineWrite(d) /\ target'.exists
             => target'.uid = mem[d].status.uid]_vars

\* C38: status.freezeUntil is assigned once, by the commit of the reconcile
\* that moves the DFZ to Frozen, as that reconcile's now() plus the
\* durationSeconds it loaded; once set, no step changes it, neither in the
\* stored object nor in a reconcile's copy, whatever the phase and whatever
\* the user does to spec.durationSeconds.
C38_FreezeUntilWriteOnce ==
    [][\A d \in OneDFZ :
          /\ dfz[d].exists /\ dfz'[d].exists
             => IF dfz[d].status.freezeUntil # Nil
                THEN dfz'[d].status.freezeUntil = dfz[d].status.freezeUntil
                ELSE dfz'[d].status.freezeUntil # Nil
                     => /\ pc[d] = "commit"
                        /\ snap[d].phase # PhaseFrozen
                        /\ dfz'[d].status.phase = PhaseFrozen
                        /\ dfz'[d].status.freezeUntil = res[d].now + mem[d].duration
          /\ pc[d] \notin {"idle", "enqueued"} /\ pc'[d] \notin {"idle", "enqueued"}
                /\ mem[d].status.freezeUntil # Nil
             => mem'[d].status.freezeUntil = mem[d].status.freezeUntil]_vars

C38_Witness ==
    \E d \in OneDFZ :
        /\ pc[d] = "commit"
        /\ snap[d].phase = PhaseFrozen /\ mem[d].status.phase = PhaseFrozen
        /\ snap[d].observedGeneration = 1 /\ mem[d].gen = 2
        /\ mem[d].duration = 1
        /\ mem[d].status.freezeUntil = MaxDuration
        /\ res[d].now = 1

\* The condition types present in a status, and its Health condition.
TypesOf(st) == {st.conditions[i].type : i \in 1..Len(st.conditions)}
HealthOf(st) ==
    IF CondIndex(st.conditions, "Health") = 0 THEN << >>
    ELSE << st.conditions[CondIndex(st.conditions, "Health")] >>

\* C39: no step removes a condition type, neither from the stored status nor
\* from a reconcile's copy; a stored Health=False/APIConflict keeps its
\* status and reason for ever, and a reconcile none of whose API calls
\* failed leaves it as it was, lastTransitionTime included, also when it
\* moves the DFZ to Completed.
C39_ConditionsOnlyGrow ==
    [][\A d \in OneDFZ :
          /\ dfz[d].exists /\ dfz'[d].exists
             => /\ TypesOf(dfz[d].status) \subseteq TypesOf(dfz'[d].status)
                /\ HasCond(dfz[d].status, "Health", "False", "APIConflict")
                   => /\ HasCond(dfz'[d].status, "Health", "False", "APIConflict")
                      /\ ~(pc[d] = "commit" /\ track[d].apiErr)
                         => HealthOf(dfz'[d].status) = HealthOf(dfz[d].status)
          /\ pc[d] \notin {"idle", "enqueued"} /\ pc'[d] \notin {"idle", "enqueued"}
             => TypesOf(mem[d].status) \subseteq TypesOf(mem'[d].status)]_vars

C39_Witness ==
    \E d \in OneDFZ :
        /\ pc[d] = "idle"
        /\ dfz[d].exists
        /\ dfz[d].status.phase = PhaseCompleted
        /\ HasCond(dfz[d].status, "Health", "False", "APIConflict")
        /\ HasCond(dfz[d].status, "FreezeProgress", "True", "ScaledToZero")

====
